---- MODULE Spec2Model ----
(***************************************************************************)
(* Weather MCP server: server.py (launcher) and weather_server_http.py     *)
(* (FastAPI application).  Python strings that the code inspects           *)
(* (environment values, chat messages) are sequences of one-character      *)
(* strings; timestamps are epoch seconds; a pytz zone object is named by   *)
(* its .zone attribute.                                                    *)
(***************************************************************************)
EXTENDS Integers, Sequences, FiniteSets, TLC

VARIABLES
    environ,             \* os.environ: TIMEZONE and OPENWEATHER_API_KEY
    boot_environ,        \* os.environ as it was when the process was started
    entry,               \* the script run as __main__
    proc,                \* "starting", "serving", "exited" (sys.exit(1)), "crashed"
    LOCAL_TIMEZONE,      \* module global of weather_server_http
    OPENWEATHER_API_KEY, \* module global of weather_server_http
    request,             \* the inbound request handled last
    now,                 \* wall clock (epoch seconds) while it was handled
    upstream,            \* the weather provider's answer to the outbound call
    calls,               \* outbound calls made while handling the request
    response             \* the HTTP response sent back

vars == <<environ, boot_environ, entry, proc, LOCAL_TIMEZONE, OPENWEATHER_API_KEY,
          request, now, upstream, calls, response>>

(***************************************************************************)
(* Python str operations on sequences of characters.                       *)
(***************************************************************************)

LowerLetters ==
    <<"a", "b", "c", "d", "e", "f", "g", "h", "i", "j", "k", "l", "m",
      "n", "o", "p", "q", "r", "s", "t", "u", "v", "w", "x", "y", "z">>

UpperLetters ==
    <<"A", "B", "C", "D", "E", "F", "G", "H", "I", "J", "K", "L", "M",
      "N", "O", "P", "Q", "R", "S", "T", "U", "V", "W", "X", "Y", "Z">>

UpperSet == {UpperLetters[i] : i \in 1..26}
LowerSet == {LowerLetters[i] : i \in 1..26}

\* str.isupper and str.islower of one character
IsUpper(c) == c \in UpperSet
IsLower(c) == c \in LowerSet

\* what \s matches and str.strip / str.split drop
IsSpace(c) == c \in {" ", "\t", "\n", "\r"}

\* the lower-case letter of each upper-case letter, and back
ToLower == [c \in UpperSet |-> LowerLetters[CHOOSE i \in 1..26 : UpperLetters[i] = c]]
ToUpper == [c \in LowerSet |-> UpperLetters[CHOOSE i \in 1..26 : LowerLetters[i] = c]]

LowerChar(c) == IF IsUpper(c) THEN ToLower[c] ELSE c

UpperChar(c) == IF IsLower(c) THEN ToUpper[c] ELSE c

\* s.lower()
lower(s) == [i \in 1..Len(s) |-> LowerChar(s[i])]

\* s.capitalize()
capitalize(s) == [i \in 1..Len(s) |-> IF i = 1 THEN UpperChar(s[i]) ELSE LowerChar(s[i])]

\* s.strip()
strip(s) ==
    IF \A i \in 1..Len(s) : IsSpace(s[i]) THEN <<>>
    ELSE LET first == CHOOSE i \in 1..Len(s) :
                         ~IsSpace(s[i]) /\ \A j \in 1..(i - 1) : IsSpace(s[j])
             last  == CHOOSE i \in 1..Len(s) :
                         ~IsSpace(s[i]) /\ \A j \in (i + 1)..Len(s) : IsSpace(s[j])
         IN  SubSeq(s, first, last)

\* s[pos:].startswith(lit), pos counted from 1
StartsAt(s, pos, lit) ==
    /\ pos + Len(lit) - 1 <= Len(s)
    /\ \A k \in 1..Len(lit) : s[pos + k - 1] = lit[k]

\* `sub in s`
Contains(sub, s) == \E pos \in 1..(Len(s) + 1) : StartsAt(s, pos, sub)

\* s.split(sep, 1)[1] for a one-character sep that occurs in s
AfterFirst(s, sep) ==
    LET at == CHOOSE i \in 1..Len(s) : s[i] = sep /\ \A j \in 1..(i - 1) : s[j] # sep
    IN  SubSeq(s, at + 1, Len(s))

\* s.split(): the maximal runs of non-whitespace, in order
RECURSIVE split(_)
split(s) ==
    IF s = <<>> THEN <<>>
    ELSE IF IsSpace(Head(s)) THEN split(Tail(s))
    ELSE LET stops == {i \in 1..Len(s) : IsSpace(s[i])}
             n     == IF stops = {} THEN Len(s)
                      ELSE (CHOOSE i \in stops : \A j \in stops : i <= j) - 1
         IN  <<SubSeq(s, 1, n)>> \o split(SubSeq(s, n + 1, Len(s)))

\* an optional str: None, or a str
None == [isNone |-> TRUE, s |-> <<>>]
Str(s) == [isNone |-> FALSE, s |-> s]

\* Python truth of an optional str
Truthy(v) == ~v.isNone /\ v.s # <<>>

(***************************************************************************)
(* Civil time: datetime.fromtimestamp(t, tz=utc).astimezone(zone) and the  *)
(* strftime fields the code reads from it.                                 *)
(***************************************************************************)

\* proleptic Gregorian date <<year, month, day>> of a day count since 1970-01-01
CivilFromDays(days) ==
    LET z   == days + 719468
        era == z \div 146097
        doe == z - era * 146097
        yoe == (doe - doe \div 1460 + doe \div 36524 - doe \div 146096) \div 365
        doy == doe - (365 * yoe + yoe \div 4 - yoe \div 100)
        mp  == (5 * doy + 2) \div 153
        d   == doy - (153 * mp + 2) \div 5 + 1
        m   == IF mp < 10 THEN mp + 3 ELSE mp - 9
        y   == yoe + era * 400 + (IF m <= 2 THEN 1 ELSE 0)
    IN  <<y, m, d>>

\* day count since 1970-01-01 of a civil date
DaysFromCivil(y, m, d) ==
    LET yy  == IF m <= 2 THEN y - 1 ELSE y
        era == yy \div 400
        yoe == yy - era * 400
        mp  == IF m > 2 THEN m - 3 ELSE m + 9
        doy == (153 * mp + 2) \div 5 + d - 1
        doe == yoe * 365 + yoe \div 4 - yoe \div 100 + doy
    IN  era * 146097 + doe - 719468

\* epoch seconds of a UTC civil date and time
UtcEpoch(y, m, d, hh, mi) == DaysFromCivil(y, m, d) * 86400 + hh * 3600 + mi * 60

\* the zones pytz knows, out of which the model uses three
ValidZones == {"UTC", "Asia/Kolkata", "America/New_York"}

\* tz database, America/New_York in 2024: EDT from 2024-03-10 07:00Z to 2024-11-03 06:00Z
NewYorkDstStart == UtcEpoch(2024, 3, 10, 7, 0)
NewYorkDstEnd   == UtcEpoch(2024, 11, 3, 6, 0)

\* zone.utcoffset at the instant t, in seconds
UtcOffset(zone, t) ==
    CASE zone = "UTC" -> 0
      [] zone = "Asia/Kolkata" -> 19800
      [] zone = "America/New_York" ->
            IF NewYorkDstStart <= t /\ t < NewYorkDstEnd THEN -14400 ELSE -18000

\* the fields of an aware datetime whose wall clock, counted in seconds from 1970-01-01
\* 00:00 of its own zone, is `local`
WallClock(local, off, zone) ==
    [date      |-> CivilFromDays(local \div 86400),
     weekday   |-> ((local \div 86400) + 3) % 7,   \* 0 = Monday, as datetime.weekday()
     hour      |-> (local % 86400) \div 3600,
     minute    |-> (local % 3600) \div 60,
     second    |-> local % 60,
     utcoffset |-> off,
     zone      |-> zone]

\* datetime.fromtimestamp(t, tz=timezone.utc).astimezone(zone)
astimezone(t, zone) == WallClock(t + UtcOffset(zone, t), UtcOffset(zone, t), zone)

\* datetime.now(zone), the clock reading `clock`
datetime_now(clock, zone) == astimezone(clock, zone)

\* dt.strftime('%Y-%m-%d'): zero-padded, so the strings order as the triples do
strftime_Ymd(dt) == dt.date

\* dt.strftime('%H:%M')
strftime_HM(dt) == <<dt.hour, dt.minute>>

\* dt.strftime('%I:%M %p')
strftime_IMp(dt) ==
    <<IF dt.hour % 12 = 0 THEN 12 ELSE dt.hour % 12, dt.minute,
      IF dt.hour < 12 THEN "AM" ELSE "PM">>

\* dt.strftime('%Y-%m-%d %H:%M:%S')
strftime_YmdHMS(dt) == <<dt.date[1], dt.date[2], dt.date[3], dt.hour, dt.minute, dt.second>>

\* dt.strftime('%A')
strftime_A(dt) ==
    <<"Monday", "Tuesday", "Wednesday", "Thursday", "Friday", "Saturday", "Sunday">>[dt.weekday + 1]

\* a '%z' that loses the sign of the offset
strftime_z_unsigned(dt) ==
    LET a == IF dt.utcoffset < 0 THEN -dt.utcoffset ELSE dt.utcoffset
    IN  [sign |-> "+",
         hh   |-> a \div 3600,
         mm   |-> (a % 3600) \div 60]

\* dt.strftime('%z'), "+HHMM" or "-HHMM": sign, hours, minutes
strftime_z(dt) ==
    LET a == IF dt.utcoffset < 0 THEN -dt.utcoffset ELSE dt.utcoffset
    IN  [sign |-> IF dt.utcoffset < 0 THEN "-" ELSE "+",
         hh   |-> a \div 3600,
         mm   |-> (a % 3600) \div 60]

\* f"{utc_offset[:3]}:{utc_offset[3:]}": the same fields with a colon between
formatted_offset(z) == <<z.sign, z.hh, ":", z.mm>>

\* lexicographic order of two '%Y-%m-%d' strings
DateLess(a, b) ==
    \/ a[1] < b[1]
    \/ a[1] = b[1] /\ a[2] < b[2]
    \/ a[1] = b[1] /\ a[2] = b[2] /\ a[3] < b[3]

(***************************************************************************)
(* The forecast bucketizer of get_weather_forecast.  A Python dict is the  *)
(* sequence of its <<key, value>> entries in insertion order.              *)
(***************************************************************************)

\* the literal of "Stop after we have 5 days"
ForecastDays == 5

\* `date not in daily_forecasts`
NotInDict(daily_forecasts, date) ==
    \A i \in 1..Len(daily_forecasts) : daily_forecasts[i].date # date

\* a store that replaces the day's sample by every later one
StoreLastSeen(daily_forecasts, date, item) ==
    IF NotInDict(daily_forecasts, date)
    THEN Append(daily_forecasts, [date |-> date, forecast |-> item])
    ELSE [i \in 1..Len(daily_forecasts) |->
            IF daily_forecasts[i].date = date
            THEN [date |-> date, forecast |-> item] ELSE daily_forecasts[i]]

\* a store without the membership test: every sample becomes an entry
StoreEverySample(daily_forecasts, date, item) ==
    Append(daily_forecasts, [date |-> date, forecast |-> item])

\* `if date not in daily_forecasts: daily_forecasts[date] = item`
StoreFirstSeen(daily_forecasts, date, item) ==
    IF NotInDict(daily_forecasts, date)
    THEN Append(daily_forecasts, [date |-> date, forecast |-> item])
    ELSE daily_forecasts

\* a limit test that lets a sixth day in
OverLimit(daily_forecasts) == Len(daily_forecasts) > ForecastDays

\* `if len(daily_forecasts) >= 5: break`
ReachedLimit(daily_forecasts) == Len(daily_forecasts) >= ForecastDays

\* the loop `for item in data['list']`, from the entries collected so far
RECURSIVE GroupByDate(_, _, _)

\* the end of one pass, the item stored: `break`, or on to the items after it;
\* stored is the dict after the pass, daily_forecasts the dict before it
BreakOrContinue(list, daily_forecasts, date, stored, zone) ==
    IF NotInDict(daily_forecasts, date) /\ ReachedLimit(stored)
    THEN stored
    ELSE GroupByDate(Tail(list), stored, zone)

\* the local date of an item of the list: dt.strftime('%Y-%m-%d')
DateOf(item, zone) == strftime_Ymd(astimezone(item.dt, zone))

GroupByDate(list, daily_forecasts, zone) ==
    IF list = <<>> THEN daily_forecasts
    ELSE BreakOrContinue(list, daily_forecasts, DateOf(Head(list), zone),
                         StoreFirstSeen(daily_forecasts, DateOf(Head(list), zone), Head(list)),
                         zone)

\* insertion of one entry into entries already sorted by key
RECURSIVE InsertByDate(_, _)
InsertByDate(e, sorted) ==
    IF sorted = <<>> THEN <<e>>
    ELSE IF DateLess(e.date, Head(sorted).date) THEN <<e>> \o sorted
    ELSE <<Head(sorted)>> \o InsertByDate(e, Tail(sorted))

RECURSIVE SortByDate(_)
SortByDate(items) ==
    IF items = <<>> THEN <<>>
    ELSE InsertByDate(items[Len(items)], SortByDate(SubSeq(items, 1, Len(items) - 1)))

\* iteration over the dict as it stands, in insertion order
UnsortedItems(daily_forecasts) == daily_forecasts

\* `sorted(daily_forecasts.items())`: the keys are distinct, so by key alone
SortedItems(daily_forecasts) == SortByDate(daily_forecasts)

\* an element whose timestamp_utc is the local wall clock instead of the sample's dt
ForecastEntryLocalStamp(e, dt) ==
    [date               |-> e.date,
     day                |-> strftime_A(dt),
     time               |-> strftime_HM(dt),
     time_12h           |-> strftime_IMp(dt),
     temperature        |-> e.forecast.temp,
     timestamp_utc      |-> e.forecast.dt + dt.utcoffset,
     formatted_datetime |-> strftime_YmdHMS(dt)]

\* one element of data.forecasts, dt the entry's sample in local time
ForecastEntryAt(e, dt) ==
    [date               |-> e.date,
     day                |-> strftime_A(dt),
     time               |-> strftime_HM(dt),
     time_12h           |-> strftime_IMp(dt),
     temperature        |-> e.forecast.temp,
     timestamp_utc      |-> e.forecast.dt,
     formatted_datetime |-> strftime_YmdHMS(dt)]

\* data.forecasts: one element for each entry of the sorted items
ForecastEntries(items, zone) ==
    [i \in 1..Len(items) |->
        ForecastEntryAt(items[i], astimezone(items[i].forecast.dt, zone))]

\* one day's paragraph of forecast_text, dt the entry's sample in local time
ForecastParagraphAt(e, dt) ==
    [day_name |-> strftime_A(dt),
     date_str |-> dt.date,                  \* '%d %b %Y'
     temp     |-> e.forecast.temp,
     time_str |-> strftime_IMp(dt)]

\* the paragraphs of forecast_text: one for each entry of the sorted items
ForecastParagraphs(items, zone) ==
    [i \in 1..Len(items) |->
        ForecastParagraphAt(items[i], astimezone(items[i].forecast.dt, zone))]

(***************************************************************************)
(* Configuration and startup: server.py and the module body of             *)
(* weather_server_http.py.                                                 *)
(***************************************************************************)

\* "Asia/Kolkata"
tz_Kolkata == <<"A", "s", "i", "a", "/", "K", "o", "l", "k", "a", "t", "a">>
\* "America/New_York"
tz_NewYork == <<"A", "m", "e", "r", "i", "c", "a", "/", "N", "e", "w", "_", "Y", "o", "r", "k">>
\* "UTC"
tz_UTC == <<"U", "T", "C">>
\* "Mars/Olympus", an identifier pytz does not know
tz_Unknown == <<"M", "a", "r", "s", "/", "O", "l", "y", "m", "p", "u", "s">>
\* " Asia/Kolkata ", a known identifier with blanks around it
tz_Padded == <<" ", "A", "s", "i", "a", "/", "K", "o", "l", "k", "a", "t", "a", " ">>

\* "0123456789abcdef0123456789abcdef", a key as the provider issues them
key_Real ==
    <<"0", "1", "2", "3", "4", "5", "6", "7", "8", "9", "a", "b", "c", "d", "e", "f", "0", "1",
      "2", "3", "4", "5", "6", "7", "8", "9", "a", "b", "c", "d", "e", "f">>
\* "7d5a7721a05e40f05897a8da9a3f05cd", the key written into the handlers
key_Hardcoded ==
    <<"7", "d", "5", "a", "7", "7", "2", "1", "a", "0", "5", "e", "4", "0", "f", "0", "5", "8",
      "9", "7", "a", "8", "d", "a", "9", "a", "3", "f", "0", "5", "c", "d">>
\* "your_api_key_here"
key_Placeholder ==
    <<"y", "o", "u", "r", "_", "a", "p", "i", "_", "k", "e", "y", "_", "h", "e", "r", "e">>
\* "   "
key_Blank == <<" ", " ", " ">>
\* "OPENWEATHER_API_KEY="
key_VarName ==
    <<"O", "P", "E", "N", "W", "E", "A", "T", "H", "E", "R", "_", "A", "P", "I", "_", "K", "E",
      "Y", "=">>
\* "OPENWEATHER_API_KEY=0123456789abcdef0123456789abcdef"
key_WithVarName == key_VarName \o key_Real

\* os.getenv(name)
getenv(env, name) == env[name]

\* os.getenv(name, default)
getenv_default(env, name, default) == IF env[name].isNone THEN Str(default) ELSE env[name]

\* pytz.timezone(name): the zone, or UnknownTimeZoneError
pytz_timezone(name) ==
    CASE name = tz_Kolkata -> [raised |-> FALSE, zone |-> "Asia/Kolkata"]
      [] name = tz_NewYork -> [raised |-> FALSE, zone |-> "America/New_York"]
      [] name = tz_UTC     -> [raised |-> FALSE, zone |-> "UTC"]
      [] OTHER             -> [raised |-> TRUE,  zone |-> "UnknownTimeZoneError"]

\* a validation that hands an unknown identifier on instead of falling back
validate_timezone_no_fallback(env) ==
    LET timezone_name == getenv(env, "TIMEZONE")
    IN  IF ~Truthy(timezone_name) THEN tz_UTC ELSE timezone_name.s

\* server.py validate_timezone(): the identifier the server is to use
validate_timezone(env) ==
    LET timezone_name == getenv(env, "TIMEZONE")
    IN  IF ~Truthy(timezone_name) THEN tz_UTC
        ELSE IF pytz_timezone(timezone_name.s).raised THEN tz_UTC
        ELSE timezone_name.s

\* weather_server_http.py lines 31-42: the credential read from the environment
CleanApiKey(env) ==
    LET k0 == getenv(env, "OPENWEATHER_API_KEY")
    IN  IF ~Truthy(k0) THEN k0
        ELSE LET k1 == strip(k0.s)
             IN  IF Contains(key_VarName, k1)
                 THEN Str(strip(AfterFirst(k1, "=")))
                 ELSE Str(k1)

\* the module body of weather_server_http, run once when it is imported:
\* the two globals, or the exception of `pytz.timezone(timezone_name)`
ImportServerModule(env) ==
    LET timezone_name == strip(getenv_default(env, "TIMEZONE", tz_Kolkata).s)
        tz            == pytz_timezone(timezone_name)
    IN  [raised              |-> tz.raised,
         LOCAL_TIMEZONE      |-> tz.zone,
         OPENWEATHER_API_KEY |-> CleanApiKey(env)]

\* server.py start_server(): the environment it leaves and the process state
start_server(env) ==
    LET timezone_name == validate_timezone(env)
        env1 == IF Str(timezone_name) # getenv(env, "TIMEZONE")
                THEN [env EXCEPT !["TIMEZONE"] = Str(timezone_name)] ELSE env
        mod  == ImportServerModule(env1)
    IN  [environ |-> env1, module |-> mod,
         proc    |-> IF mod.raised THEN "exited" ELSE "serving"]

\* values of the TIMEZONE variable the process may be started with
TimezoneSettings ==
    {None, Str(<<>>), Str(tz_Kolkata), Str(tz_NewYork), Str(tz_Unknown), Str(tz_Padded)}

\* values of the OPENWEATHER_API_KEY variable the process may be started with
ApiKeySettings ==
    {None, Str(key_Blank), Str(key_Placeholder), Str(key_Real), Str(key_WithVarName)}

EntryPoints == {"server.py", "weather_server_http.py"}

NoZone == "unbound"
NoRequest == [route |-> "none"]
NoUpstream == [kind |-> "none", status_code |-> 0, data |-> [none |-> TRUE]]
NoResponse == [status |-> 0]

\* a process about to run its entry script
Init ==
    /\ environ \in [TIMEZONE : TimezoneSettings, OPENWEATHER_API_KEY : ApiKeySettings]
    /\ boot_environ = environ
    /\ entry \in EntryPoints
    /\ proc = "starting"
    /\ LOCAL_TIMEZONE = NoZone
    /\ OPENWEATHER_API_KEY = None
    /\ request = NoRequest
    /\ now = 0
    /\ upstream = NoUpstream
    /\ calls = <<>>
    /\ response = NoResponse

\* server.py run as __main__ without the credential: lines 99-102
ServerMainNoKey ==
    /\ entry = "server.py" /\ proc = "starting"
    /\ ~Truthy(getenv(environ, "OPENWEATHER_API_KEY"))
    /\ proc' = "exited"
    /\ UNCHANGED <<environ, boot_environ, entry, LOCAL_TIMEZONE, OPENWEATHER_API_KEY,
                   request, now, upstream, calls, response>>

\* server.py run as __main__ with the credential: line 105, start_server()
ServerMainStart ==
    /\ entry = "server.py" /\ proc = "starting"
    /\ Truthy(getenv(environ, "OPENWEATHER_API_KEY"))
    /\ LET s == start_server(environ)
       IN  /\ environ' = s.environ
           /\ proc' = s.proc
           /\ LOCAL_TIMEZONE' = IF s.module.raised THEN NoZone ELSE s.module.LOCAL_TIMEZONE
           /\ OPENWEATHER_API_KEY' = IF s.module.raised THEN None
                                     ELSE s.module.OPENWEATHER_API_KEY
    /\ UNCHANGED <<boot_environ, entry, request, now, upstream, calls, response>>

\* weather_server_http.py run as __main__: its module body, then uvicorn.run
HttpMain ==
    /\ entry = "weather_server_http.py" /\ proc = "starting"
    /\ LET mod == ImportServerModule(environ)
       IN  /\ proc' = IF mod.raised THEN "crashed" ELSE "serving"
           /\ LOCAL_TIMEZONE' = IF mod.raised THEN NoZone ELSE mod.LOCAL_TIMEZONE
           /\ OPENWEATHER_API_KEY' = IF mod.raised THEN None ELSE mod.OPENWEATHER_API_KEY
    /\ UNCHANGED <<environ, boot_environ, entry, request, now, upstream, calls, response>>

(***************************************************************************)
(* City extraction: extract_city_from_message and the regular expressions  *)
(* it searches with, matched the way re.search matches them (leftmost      *)
(* start, alternatives in order, the group greedy with backtracking).      *)
(***************************************************************************)

\* the three kinds of element the patterns are made of
Lit(alts) == [kind |-> "lit", alts |-> alts]     \* (?:a|b|c), or a plain literal
Group1    == [kind |-> "group1", alts |-> <<>>]  \* ([A-Za-z\s]+)
End       == [kind |-> "end", alts |-> <<>>]     \* (?:\?|$|\.)

\* [A-Za-z\s]
InGroupClass(c) == IsUpper(c) \/ IsLower(c) \/ IsSpace(c)

\* `$`: at the end of the string, or before a newline that ends it
AtDollar(msg, pos) == pos = Len(msg) + 1 \/ (pos = Len(msg) /\ msg[pos] = "\n")

NoMatch == [ok |-> FALSE, group1 |-> <<>>]

\* how many characters from pos on are of the group's class, up to the first that is not
RECURSIVE RunLength(_, _)
RunLength(msg, pos) ==
    IF pos > Len(msg) \/ ~InGroupClass(msg[pos]) THEN 0 ELSE 1 + RunLength(msg, pos + 1)

\* the elements els matched at pos in the first way backtracking finds; g is group 1
RECURSIVE MatchFrom(_, _, _, _), MatchLit(_, _, _, _, _, _), MatchGroup(_, _, _, _)
MatchFrom(msg, els, pos, g) ==
    IF els = <<>> THEN [ok |-> TRUE, group1 |-> g]
    ELSE CASE Head(els).kind = "lit" -> MatchLit(msg, Head(els).alts, 1, Tail(els), pos, g)
           [] Head(els).kind = "group1" ->
                MatchGroup(msg, Tail(els), pos, RunLength(msg, pos))
           [] Head(els).kind = "end" ->
                IF StartsAt(msg, pos, <<"?">>) THEN MatchFrom(msg, Tail(els), pos + 1, g)
                ELSE IF AtDollar(msg, pos) THEN MatchFrom(msg, Tail(els), pos, g)
                ELSE IF StartsAt(msg, pos, <<".">>) THEN MatchFrom(msg, Tail(els), pos + 1, g)
                ELSE NoMatch

\* the alternatives from the i-th on, in their order
MatchLit(msg, alts, i, rest, pos, g) ==
    IF i > Len(alts) THEN NoMatch
    ELSE LET r == IF StartsAt(msg, pos, alts[i])
                  THEN MatchFrom(msg, rest, pos + Len(alts[i]), g)
                  ELSE NoMatch
         IN  IF r.ok THEN r ELSE MatchLit(msg, alts, i + 1, rest, pos, g)

\* the group taking k characters, then fewer: greedy, at least one
MatchGroup(msg, rest, pos, k) ==
    IF k < 1 THEN NoMatch
    ELSE LET r == MatchFrom(msg, rest, pos + k, SubSeq(msg, pos, pos + k - 1))
         IN  IF r.ok THEN r ELSE MatchGroup(msg, rest, pos, k - 1)

\* re.search(pattern, msg) from pos on: the match at the leftmost position that has one
RECURSIVE SearchFrom(_, _, _)
SearchFrom(pattern, msg, pos) ==
    IF pos > Len(msg) + 1 THEN NoMatch
    ELSE LET r == MatchFrom(msg, pattern, pos, <<>>)
         IN  IF r.ok THEN r ELSE SearchFrom(pattern, msg, pos + 1)

re_search(pattern, msg) == SearchFrom(pattern, msg, 1)

\* the list `patterns` of extract_city_from_message, in its order
patterns ==
    << \* weather (?:in|at|for) ([A-Za-z\s]+)(?:\?|$|\.)
      <<Lit(<<<<"w", "e", "a", "t", "h", "e", "r", " ">>>>),
        Lit(<<<<"i", "n">>, <<"a", "t">>, <<"f", "o", "r">>>>),
        Lit(<<<<" ">>>>),
        Group1,
        End>>,
       \* (?:in|at) ([A-Za-z\s]+) (?:weather|temperature|forecast)(?:\?|$|\.)
      <<Lit(<<<<"i", "n">>, <<"a", "t">>>>),
        Lit(<<<<" ">>>>),
        Group1,
        Lit(<<<<" ">>>>),
        Lit(<<<<"w", "e", "a", "t", "h", "e", "r">>, <<"t", "e", "m", "p", "e", "r", "a", "t", "u", "r", "e">>, <<"f", "o", "r", "e", "c", "a", "s", "t">>>>),
        End>>,
       \* (?:will it|is it|how is it|how's) (?:raining|rain|sunny|cloudy|hot|cold|warm) (?:in|at) ([A-Za-z\s]+)(?:\?|$|\.)
      <<Lit(<<<<"w", "i", "l", "l", " ", "i", "t">>, <<"i", "s", " ", "i", "t">>, <<"h", "o", "w", " ", "i", "s", " ", "i", "t">>, <<"h", "o", "w", "'", "s">>>>),
        Lit(<<<<" ">>>>),
        Lit(<<<<"r", "a", "i", "n", "i", "n", "g">>, <<"r", "a", "i", "n">>, <<"s", "u", "n", "n", "y">>, <<"c", "l", "o", "u", "d", "y">>, <<"h", "o", "t">>, <<"c", "o", "l", "d">>, <<"w", "a", "r", "m">>>>),
        Lit(<<<<" ">>>>),
        Lit(<<<<"i", "n">>, <<"a", "t">>>>),
        Lit(<<<<" ">>>>),
        Group1,
        End>>,
       \* (?:what's|what is) (?:the weather|it) like (?:in|at) ([A-Za-z\s]+)(?:\?|$|\.)
      <<Lit(<<<<"w", "h", "a", "t", "'", "s">>, <<"w", "h", "a", "t", " ", "i", "s">>>>),
        Lit(<<<<" ">>>>),
        Lit(<<<<"t", "h", "e", " ", "w", "e", "a", "t", "h", "e", "r">>, <<"i", "t">>>>),
        Lit(<<<<" ", "l", "i", "k", "e", " ">>>>),
        Lit(<<<<"i", "n">>, <<"a", "t">>>>),
        Lit(<<<<" ">>>>),
        Group1,
        End>>,
       \* weather (?:of|for) ([A-Za-z\s]+)(?:\?|$|\.)
      <<Lit(<<<<"w", "e", "a", "t", "h", "e", "r", " ">>>>),
        Lit(<<<<"o", "f">>, <<"f", "o", "r">>>>),
        Lit(<<<<" ">>>>),
        Group1,
        End>>,
       \* ([A-Za-z\s]+) (?:weather|forecast|temperature)(?:\?|$|\.)
      <<Group1,
        Lit(<<<<" ">>>>),
        Lit(<<<<"w", "e", "a", "t", "h", "e", "r">>, <<"f", "o", "r", "e", "c", "a", "s", "t">>, <<"t", "e", "m", "p", "e", "r", "a", "t", "u", "r", "e">>>>),
        End>>>>

\* the cities the first webhook handler looks for, in its order
possible_cities ==
    <<<<"h", "y", "d", "e", "r", "a", "b", "a", "d">>,
      <<"c", "h", "e", "n", "n", "a", "i">>,
      <<"m", "u", "m", "b", "a", "i">>,
      <<"d", "e", "l", "h", "i">>,
      <<"b", "a", "n", "g", "a", "l", "o", "r", "e">>,
      <<"l", "o", "n", "d", "o", "n">>,
      <<"n", "e", "w", " ", "y", "o", "r", "k">>,
      <<"p", "a", "r", "i", "s">>,
      <<"t", "o", "k", "y", "o">>>>
\* the city names extract_city_from_message accepts as a bare word
known_city_words ==
    <<<<"l", "o", "n", "d", "o", "n">>,
      <<"p", "a", "r", "i", "s">>,
      <<"t", "o", "k", "y", "o">>,
      <<"d", "e", "l", "h", "i">>,
      <<"h", "y", "d", "e", "r", "a", "b", "a", "d">>,
      <<"c", "h", "e", "n", "n", "a", "i">>,
      <<"m", "u", "m", "b", "a", "i">>>>
\* forecast_terms of the second webhook handler
forecast_terms ==
    <<<<"f", "o", "r", "e", "c", "a", "s", "t">>,
      <<"w", "e", "e", "k">>,
      <<"5", " ", "d", "a", "y">>,
      <<"5", "-", "d", "a", "y">>,
      <<"d", "a", "y", "s">>,
      <<"t", "o", "m", "o", "r", "r", "o", "w">>,
      <<"f", "u", "t", "u", "r", "e">>,
      <<"n", "e", "x", "t">>>>
\* the words that make the first webhook handler answer with current weather
current_terms ==
    <<<<"t", "o", "d", "a", "y">>,
      <<"n", "o", "w">>,
      <<"c", "u", "r", "r", "e", "n", "t">>>>

\* the first element of a sequence that satisfies a test, as an index (0: none)
FirstIndex(flags) ==
    IF \E i \in 1..Len(flags) : flags[i]
    THEN CHOOSE i \in 1..Len(flags) : flags[i] /\ \A j \in 1..(i - 1) : ~flags[j]
    ELSE 0

\* `word in [...]`
InList(word, list) == \E i \in 1..Len(list) : list[i] = word

\* the last pattern from the i-th on that matches, instead of the first
RECURSIVE LastPatternMatch(_, _)
LastPatternMatch(message, i) ==
    IF i > Len(patterns) THEN NoMatch
    ELSE LET later == LastPatternMatch(message, i + 1)
         IN  IF later.ok THEN later ELSE re_search(patterns[i], message)

\* `for pattern in patterns`: the first pattern from the i-th on that matches
RECURSIVE FirstPatternMatch(_, _)
FirstPatternMatch(message, i) ==
    IF i > Len(patterns) THEN NoMatch
    ELSE LET match == re_search(patterns[i], message)
         IN  IF match.ok THEN match ELSE FirstPatternMatch(message, i + 1)

\* extract_city_from_message(message): a str, or None
extract_city_from_message(message) ==
    LET match == FirstPatternMatch(message, 1)
        words == split(message)
        named == FirstIndex([i \in 1..Len(words) |->
                     IsUpper(words[i][1]) \/ InList(words[i], known_city_words)])
    IN  IF match.ok THEN Str(strip(match.group1))
        ELSE IF named # 0 THEN Str(capitalize(words[named]))
        ELSE None

\* the first webhook handler's search for a city: a str, or None
first_possible_city(message) ==
    LET found == FirstIndex([i \in 1..Len(possible_cities) |->
                     Contains(possible_cities[i], message)])
    IN  IF found = 0 THEN None ELSE Str(possible_cities[found])

\* `any(term in message for term in terms)`
AnyTermIn(terms, message) == \E i \in 1..Len(terms) : Contains(terms[i], message)

\* chat messages, by name
msgs ==
    [\* ""
     empty |->
         <<>>,
     \* "weather"
     weather |->
         <<"w", "e", "a", "t", "h", "e", "r">>,
     \* "weather in   ?"
     blank_city |->
         <<"w", "e", "a", "t", "h", "e", "r", " ", "i", "n", " ", " ", " ", "?">>,
     \* "hello 42"
     numbers |->
         <<"h", "e", "l", "l", "o", " ", "4", "2">>,
     \* "What's the weather like in Paris?"
     paris |->
         <<"W", "h", "a", "t", "'", "s", " ", "t", "h", "e", " ", "w", "e", "a", "t", "h", "e",
           "r", " ", "l", "i", "k", "e", " ", "i", "n", " ", "P", "a", "r", "i", "s", "?">>,
     \* "london forecast"
     london_forecast |->
         <<"l", "o", "n", "d", "o", "n", " ", "f", "o", "r", "e", "c", "a", "s", "t">>,
     \* "weather in tokyo"
     tokyo |->
         <<"w", "e", "a", "t", "h", "e", "r", " ", "i", "n", " ", "t", "o", "k", "y", "o">>,
     \* "is it raining in mumbai tomorrow?"
     mumbai_tomorrow |->
         <<"i", "s", " ", "i", "t", " ", "r", "a", "i", "n", "i", "n", "g", " ", "i", "n", " ",
           "m", "u", "m", "b", "a", "i", " ", "t", "o", "m", "o", "r", "r", "o", "w", "?">>,
     \* "tell me about delhi"
     delhi |->
         <<"t", "e", "l", "l", " ", "m", "e", " ", "a", "b", "o", "u", "t", " ", "d", "e", "l",
           "h", "i">>,
     \* "current weather in new york today"
     new_york_today |->
         <<"c", "u", "r", "r", "e", "n", "t", " ", "w", "e", "a", "t", "h", "e", "r", " ", "i",
           "n", " ", "n", "e", "w", " ", "y", "o", "r", "k", " ", "t", "o", "d", "a", "y">>,
     \* "weather for berlin"
     berlin |->
         <<"w", "e", "a", "t", "h", "e", "r", " ", "f", "o", "r", " ", "b", "e", "r", "l", "i",
           "n">>,
     \* "5 day forecast for chennai"
     chennai_5day |->
         <<"5", " ", "d", "a", "y", " ", "f", "o", "r", "e", "c", "a", "s", "t", " ", "f", "o",
           "r", " ", "c", "h", "e", "n", "n", "a", "i">>]

(***************************************************************************)
(* Python values and outcomes.  A str that the service composes is the     *)
(* record of its template and the values formatted into it.                *)
(***************************************************************************)

PyStr(text)  == [type |-> "str", value |-> text]
PyDict(dict) == [type |-> "dict", value |-> dict]
PyNone       == [type |-> "none", value |-> [text |-> "None"]]

\* exception objects: the class, and whether it derives from requests.RequestException
ConnectionError    == [cls |-> "ConnectionError", request_exception |-> TRUE, status_code |-> 0]
HTTPError          == [cls |-> "HTTPError", request_exception |-> TRUE, status_code |-> 0]
KeyError           == [cls |-> "KeyError", request_exception |-> FALSE, status_code |-> 0]
AttributeError     == [cls |-> "AttributeError", request_exception |-> FALSE, status_code |-> 0]
HTTPException(code) == [cls |-> "HTTPException", request_exception |-> FALSE, status_code |-> code]
NoException        == [cls |-> "none", request_exception |-> FALSE, status_code |-> 0]

\* how a call ended, and the outbound calls it made
Return(value, made) == [raised |-> FALSE, value |-> value, exc |-> NoException, calls |-> made]
Raise(exc, made)    == [raised |-> TRUE, value |-> PyNone, exc |-> exc, calls |-> made]

(***************************************************************************)
(* The weather provider, as the service sees it.                           *)
(***************************************************************************)

\* the provider cannot be reached: requests.get raises
Unreachable == [kind |-> "unreachable", status_code |-> 0, data |-> [none |-> TRUE]]
\* the provider answers with an error status
ErrorStatus(code) == [kind |-> "status", status_code |-> code, data |-> [none |-> TRUE]]
\* the provider answers 200 with JSON that lacks the keys the service reads
MissingKeys == [kind |-> "missing_keys", status_code |-> 200, data |-> [none |-> TRUE]]
\* the provider answers 200 with the documented JSON
Ok(data) == [kind |-> "ok", status_code |-> 200, data |-> data]

Failed(up) == up.kind \in {"unreachable", "status"}

\* one element of the forecast `list`: dt, main.temp
Sample(t) == [dt |-> t, temp |-> 10 + ((t \div 10800) % 20)]

(***************************************************************************)
(* get_current_weather and get_weather_forecast.                           *)
(***************************************************************************)

\* lines 248-254 and 413-419: the key sent to the provider
ApiKeyToSend(key) ==
    LET api_key == IF ~Truthy(key) \/ Len(strip(key.s)) < 20 THEN key_Hardcoded ELSE key.s
    IN  strip(api_key)

\* a fetch that asks the provider a second time when the first call failed
requests_get_retrying(url, city, api_key, up) ==
    LET call == [url |-> url, q |-> city, appid |-> api_key]
    IN  IF up.kind = "unreachable" THEN Raise(ConnectionError, <<call, call>>)
        ELSE IF up.kind = "status" THEN Raise(HTTPError, <<call, call>>)
        ELSE Return(up, <<call>>)

\* `requests.get(url, params=params)` followed by `response.raise_for_status()`
requests_get(url, city, api_key, up) ==
    LET call == [url |-> url, q |-> city, appid |-> api_key]
    IN  IF up.kind = "unreachable" THEN Raise(ConnectionError, <<call>>)
        ELSE IF up.kind = "status" THEN Raise(HTTPError, <<call>>)
        ELSE Return(up, <<call>>)

\* an except clause that names ConnectionError alone
CaughtAsConnectionError(exc) == exc.cls = "ConnectionError"

\* `except requests.RequestException`
CaughtAsRequestException(exc) == exc.request_exception

\* the success value of get_current_weather: data is the provider's JSON and
\* local_time its `dt` in the bound zone
CurrentWeatherValue(data, local_time, zone) ==
    PyDict([success |-> TRUE,
            data |-> [city            |-> data.name,
                      temperature     |-> data.temp,
                      timezone        |-> zone,
                      formatted_time  |-> strftime_YmdHMS(local_time),
                      timezone_offset |-> formatted_offset(strftime_z(local_time))],
            formatted_response |->
               [text        |-> "Current Weather for",
                city        |-> data.name,
                temperature |-> data.temp,
                day_name    |-> strftime_A(local_time),
                date        |-> local_time.date,
                time_12h    |-> strftime_IMp(local_time),
                zone        |-> zone,
                offset      |-> formatted_offset(strftime_z(local_time))]])

\* get_current_weather from line 283 on, and its except clause; got is how the fetch ended
CurrentWeatherOf(city, got, up, zone) ==
    IF got.raised
    THEN IF CaughtAsRequestException(got.exc)
         THEN Return(PyDict([success |-> FALSE,
                             error |-> [text |-> "Failed to fetch weather data: ",
                                        e |-> got.exc.cls],
                             formatted_response |->
                                [text |-> "Sorry, I couldn't get weather data for {city}. Please check the city name and try again.",
                                 city |-> city]]),
                     got.calls)
         ELSE got
    ELSE IF up.kind = "missing_keys" THEN Raise(KeyError, got.calls)
    ELSE Return(CurrentWeatherValue(up.data, astimezone(up.data.dt, zone), zone), got.calls)

\* get_current_weather(city)
get_current_weather(city, up, clock, zone, key) ==
    CurrentWeatherOf(city,
                     requests_get("http://api.openweathermap.org/data/2.5/weather",
                                  city, ApiKeyToSend(key), up),
                     up, zone)

\* the success value of get_weather_forecast: offset is the offset taken once from
\* the clock (line 438), daily_forecasts the dict the loop has filled
ForecastValue(data, daily_forecasts, offset, zone) ==
    PyDict([success |-> TRUE,
            data |-> [city            |-> data.name,
                      timezone        |-> zone,
                      timezone_offset |-> offset,
                      forecasts       |-> ForecastEntries(SortedItems(daily_forecasts), zone)],
            formatted_response |->
               [text   |-> "5-Day Weather Forecast for",
                city   |-> data.name,
                days   |-> ForecastParagraphs(SortedItems(daily_forecasts), zone),
                zone   |-> zone,
                offset |-> offset]])

\* get_weather_forecast from line 432 on, and its except clause; got is how the fetch ended
ForecastOf(city, got, up, clock, zone) ==
    IF got.raised
    THEN IF CaughtAsRequestException(got.exc)
         THEN Return(PyDict([success |-> FALSE,
                             error |-> [text |-> "Failed to fetch forecast data: ",
                                        e |-> got.exc.cls],
                             formatted_response |->
                                [text |-> "Sorry, I couldn't get forecast data for {city}.",
                                 city |-> city]]),
                     got.calls)
         ELSE got
    ELSE IF up.kind = "missing_keys" THEN Raise(KeyError, got.calls)
    ELSE Return(ForecastValue(up.data,
                              GroupByDate(up.data.list, <<>>, zone),
                              formatted_offset(strftime_z(datetime_now(clock, zone))),
                              zone),
                got.calls)

\* get_weather_forecast(city)
get_weather_forecast(city, up, clock, zone, key) ==
    ForecastOf(city,
               requests_get("http://api.openweathermap.org/data/2.5/forecast",
                            city, ApiKeyToSend(key), up),
               up, clock, zone)

(***************************************************************************)
(* The request handlers.                                                   *)
(***************************************************************************)

\* what FastAPI sends for the way a handler ended
HttpResponse(out) ==
    IF ~out.raised THEN [status |-> 200, body |-> out.value]
    ELSE IF out.exc.cls = "HTTPException"
    THEN [status |-> out.exc.status_code, body |-> PyDict([detail |-> out.exc.cls])]
    ELSE [status |-> 500, body |-> PyStr([text |-> "Internal Server Error"])]

\* the try block of execute_tool
execute_tool_body(req, up, clock, zone, key) ==
    IF req.tool_name = "get_weather"
    THEN IF ~req.parameters.has_city THEN Raise(KeyError, <<>>)
         ELSE get_current_weather(req.parameters.city, up, clock, zone, key)
    ELSE IF req.tool_name = "get_forecast"
    THEN IF ~req.parameters.has_city THEN Raise(KeyError, <<>>)
         ELSE get_weather_forecast(req.parameters.city, up, clock, zone, key)
    ELSE Raise(HTTPException(400), <<>>)

\* `except Exception as e: raise HTTPException(status_code=500, ...)` around the try
\* block of execute_tool, which ended as `body`
ExceptAs500(body) == IF body.raised THEN Raise(HTTPException(500), body.calls) ELSE body

\* execute_tool(request)
execute_tool(req, up, clock, zone, key) ==
    ExceptAs500(execute_tool_body(req, up, clock, zone, key))

\* `return f"Sorry, I encountered an error: {str(e)}"` of both webhook handlers
SorryError(out) ==
    Return(PyStr([text |-> "Sorry, I encountered an error: ", e |-> out.exc.cls]), out.calls)

SpecifyCity ==
    PyStr([text |-> "I couldn't determine which city you're asking about. Please specify a city name."])

\* `result["formatted_response"]` of a call that returned
FormattedResponse(out) == Return(PyStr(out.value.value.formatted_response), out.calls)

\* the end of both webhook handlers: the text of the tool's result, or the except clause
WebhookReply(result) ==
    IF result.raised THEN SorryError(result) ELSE FormattedResponse(result)

\* a test that lets the empty string through as a city
CityIsNone(city) == city.isNone

\* `if not city`
NotCity(city) == ~Truthy(city)

\* the first webhook handler from line 201 on with a forecast term in the message
\* deciding before preferCurrentWeather does
WebhookDictTermsFirst(req, message, city, up, clock, zone, key) ==
    IF NotCity(city) THEN Return(SpecifyCity, <<>>)
    ELSE WebhookReply(IF AnyTermIn(forecast_terms, message)
                      THEN get_weather_forecast(city.s, up, clock, zone, key)
                      ELSE IF req.preferCurrentWeather \/ AnyTermIn(current_terms, message)
                      THEN get_current_weather(city.s, up, clock, zone, key)
                      ELSE get_weather_forecast(city.s, up, clock, zone, key))

\* the first webhook handler from line 201 on, message and city bound
WebhookDictForCity(req, message, city, up, clock, zone, key) ==
    IF NotCity(city) THEN Return(SpecifyCity, <<>>)
    ELSE WebhookReply(IF req.preferCurrentWeather \/ AnyTermIn(current_terms, message)
                      THEN get_current_weather(city.s, up, clock, zone, key)
                      ELSE get_weather_forecast(city.s, up, clock, zone, key))

\* `request.get("message", "").lower()` of a message that is a str or absent
DictMessage(req) == lower(IF req.message.type = "absent" THEN <<>> ELSE req.message.s)

\* the webhook handler defined first (line 188), which takes the body as a dict
webhook_handler_dict(req, up, clock, zone, key) ==
    IF req.message.type = "int" THEN SorryError(Raise(AttributeError, <<>>))
    ELSE WebhookDictForCity(req, DictMessage(req), first_possible_city(DictMessage(req)),
                            up, clock, zone, key)

\* the second webhook handler from line 354 on, message and city bound
WebhookModelForCity(req, message, city, up, clock, zone, key) ==
    IF NotCity(city) THEN Return(SpecifyCity, <<>>)
    ELSE WebhookReply(IF req.preferCurrentWeather
                      THEN get_current_weather(city.s, up, clock, zone, key)
                      ELSE IF AnyTermIn(forecast_terms, message)
                      THEN get_weather_forecast(city.s, up, clock, zone, key)
                      ELSE get_current_weather(city.s, up, clock, zone, key))

\* the webhook handler defined second (line 347), which takes a WebhookRequest
webhook_handler_model(req, up, clock, zone, key) ==
    WebhookModelForCity(req, lower(req.message.s),
                        extract_city_from_message(lower(req.message.s)),
                        up, clock, zone, key)

(***************************************************************************)
(* The environment of a serving process: requests, clock readings and the  *)
(* provider's answers.                                                     *)
(***************************************************************************)

\* all sequences over S of length at most n
BoundedSeq(S, n) == UNION {[1..k -> S] : k \in 0..n}

\* all sequences of length at most n of distinct elements of S
RECURSIVE DistinctSeq(_, _)
DistinctSeq(S, n) ==
    IF n = 0 THEN {<<>>}
    ELSE LET shorter == DistinctSeq(S, n - 1)
         IN  shorter \cup
             UNION {{Append(q, x) : x \in S \ {q[i] : i \in 1..Len(q)}} :
                      q \in {r \in shorter : Len(r) = n - 1}}

\* longest forecast list the provider returns in SpecBucket
MaxSamples == 6

\* longest of the short forecast lists the provider returns in Spec
MaxSpecList == 2

\* clock readings: 2024-11-01 20:00Z, and 2024-11-03 12:00Z (after New York left DST)
Clocks == {UtcEpoch(2024, 11, 1, 20, 0), UtcEpoch(2024, 11, 3, 12, 0)}

\* forecast slots: two on 2024-11-02 UTC, which fall on different days in the other
\* zones, and one a day from 2024-11-01 to 2024-11-06, all at 21:00Z
SampleTimes ==
    {UtcEpoch(2024, 11, 1, 21, 0), UtcEpoch(2024, 11, 2, 3, 0), UtcEpoch(2024, 11, 2, 21, 0),
     UtcEpoch(2024, 11, 3, 21, 0), UtcEpoch(2024, 11, 4, 21, 0), UtcEpoch(2024, 11, 5, 21, 0),
     UtcEpoch(2024, 11, 6, 21, 0)}

\* the slots in the provider's own order, ascending
WeekList ==
    <<Sample(UtcEpoch(2024, 11, 1, 21, 0)), Sample(UtcEpoch(2024, 11, 2, 3, 0)),
      Sample(UtcEpoch(2024, 11, 2, 21, 0)), Sample(UtcEpoch(2024, 11, 3, 21, 0)),
      Sample(UtcEpoch(2024, 11, 4, 21, 0)), Sample(UtcEpoch(2024, 11, 5, 21, 0)),
      Sample(UtcEpoch(2024, 11, 6, 21, 0))>>

\* the first three slots
FewSamples ==
    {Sample(UtcEpoch(2024, 11, 1, 21, 0)), Sample(UtcEpoch(2024, 11, 2, 3, 0)),
     Sample(UtcEpoch(2024, 11, 2, 21, 0))}

\* "Paris"
city_Paris == <<"P", "a", "r", "i", "s">>

\* JSON of the current-weather endpoint: dt, name, main.temp
CurrentData ==
    {[dt |-> t, name |-> "Paris", temp |-> 21] :
        t \in {UtcEpoch(2024, 7, 4, 12, 0), UtcEpoch(2024, 11, 3, 6, 0)}}

\* JSON of the forecast endpoint: list, city.name
ForecastData(lists) == {[list |-> l, name |-> "Paris"] : l \in lists}

ErrorAnswers == {Unreachable, ErrorStatus(404), ErrorStatus(500), MissingKeys}

\* what the provider may do with a call to url
ProviderAnswers(url) ==
    ErrorAnswers \cup
    IF url = "http://api.openweathermap.org/data/2.5/weather"
    THEN {Ok(d) : d \in CurrentData}
    ELSE {Ok(d) : d \in ForecastData(BoundedSeq(FewSamples, MaxSpecList) \cup {WeekList})}

\* bodies of POST /tools/execute; `days` is a parameter no handler reads (0: not sent)
ToolRequests ==
    {[route      |-> "/tools/execute",
      tool_name  |-> n,
      parameters |-> [has_city |-> h, city |-> IF h THEN city_Paris ELSE <<>>, days |-> d]] :
        n \in {"get_weather", "get_forecast", "get_alerts"}, h \in BOOLEAN, d \in {0, 1, 3}}

Messages == {msgs[name] : name \in DOMAIN msgs}

\* bodies of POST /webhook-test/weather-chat that pass WebhookRequest's validation
WebhookRequests ==
    {[route |-> "/webhook-test/weather-chat", handler |-> "model",
      message |-> [type |-> "str", s |-> m], preferCurrentWeather |-> p] :
        m \in Messages, p \in BOOLEAN}

\* bodies of POST /webhook-test/weather-chat as a dict: the message may be absent, or no str
WebhookDicts ==
    {[route |-> "/webhook-test/weather-chat", handler |-> "dict",
      message |-> m, preferCurrentWeather |-> p] :
        m \in {[type |-> "str", s |-> x] : x \in Messages}
              \cup {[type |-> "absent", s |-> <<>>], [type |-> "int", s |-> <<>>]},
        p \in BOOLEAN}

\* the route table: the handler FastAPI runs for a request
Dispatch(req, up, clock, zone, key) ==
    IF req.route = "/tools/execute" THEN execute_tool(req, up, clock, zone, key)
    ELSE IF req.handler = "dict" THEN webhook_handler_dict(req, up, clock, zone, key)
    ELSE webhook_handler_model(req, up, clock, zone, key)

\* GET /debug, lines 85-99
debug_info(key, env) ==
    [api_key_info |->
        [set           |-> ~key.isNone,
         valid_format  |-> IF key.isNone THEN "null"
                           ELSE IF key.s = <<>> THEN ""
                           ELSE IF Len(key.s) > 20 THEN "true" ELSE "false",
         first_5_chars |-> IF Truthy(key)
                           THEN SubSeq(key.s, 1, IF Len(key.s) < 5 THEN Len(key.s) ELSE 5)
                           ELSE <<"n", "o", "n", "e">>,
         last_4_chars  |-> IF Truthy(key) /\ Len(key.s) > 4
                           THEN SubSeq(key.s, Len(key.s) - 3, Len(key.s))
                           ELSE <<"n", "o", "n", "e">>],
     env_vars |->
        [OPENWEATHER_API_KEY |->
            getenv_default(env, "OPENWEATHER_API_KEY", <<"n", "o", "t", " ", "s", "e", "t">>).s,
         TIMEZONE |->
            getenv_default(env, "TIMEZONE", <<"n", "o", "t", " ", "s", "e", "t">>).s]]

\* GET /health, lines 101-149, without the constants of `available_zones`
health_check(clock, zone, env) ==
    [status   |-> "healthy",
     timezone |->
        [name           |-> zone,
         env_setting    |-> getenv_default(env, "TIMEZONE",
                                           <<"N", "o", "t", " ", "s", "e", "t">>).s,
         offset         |-> formatted_offset(strftime_z(datetime_now(clock, zone))),
         formatted_time |-> strftime_YmdHMS(datetime_now(clock, zone)),
         utc_time       |-> strftime_YmdHMS(astimezone(clock, tz_UTC))],
     timezone_test |->
        [utc_timestamp   |-> clock,
         converted_time  |-> strftime_YmdHMS(astimezone(clock, zone)),
         time_12h_format |-> strftime_IMp(astimezone(clock, zone)),
         current_tz      |-> zone]]

\* GET /tools, lines 151-185: the names of the tools listed
list_tools == [tools |-> <<"get_weather", "get_forecast">>]

GetRoutes == {"/debug", "/health", "/tools"}

\* the route table for GET: none of these handlers calls the provider
GetDispatch(route, clock, zone, key, env) ==
    Return(PyDict(IF route = "/debug" THEN debug_info(key, env)
                  ELSE IF route = "/health" THEN health_check(clock, zone, env)
                  ELSE list_tools),
           <<>>)

\* the response goes out as if the handlers declared the credential `global`: the key
\* they send replaces OPENWEATHER_API_KEY
RespondStoringKey(req, clock, up, out) ==
    /\ request' = req
    /\ now' = clock
    /\ upstream' = up
    /\ calls' = out.calls
    /\ response' = HttpResponse(out)
    /\ OPENWEATHER_API_KEY' = Str(ApiKeyToSend(OPENWEATHER_API_KEY))
    /\ UNCHANGED <<environ, boot_environ, entry, proc, LOCAL_TIMEZONE>>

\* the response goes out: `out` is how the handler ended.  No handler assigns a
\* global or the environment: the module has no `global` statement and api_key
\* (lines 248-254, 413-419) is a local name
Respond(req, clock, up, out) ==
    /\ request' = req
    /\ now' = clock
    /\ upstream' = up
    /\ calls' = out.calls
    /\ response' = HttpResponse(out)
    /\ UNCHANGED <<environ, boot_environ, entry, proc, LOCAL_TIMEZONE, OPENWEATHER_API_KEY>>

\* the answers the provider can give to the call the handler makes, `probe` being how
\* the handler ends when there is no answer; none when it calls nothing
AnswersTo(probe) ==
    IF probe.calls = <<>> THEN {NoUpstream} ELSE ProviderAnswers(probe.calls[1].url)

\* a serving process handles one request
Serve(req) ==
    /\ proc = "serving"
    /\ request = NoRequest
    /\ \E clock \in Clocks :
         \E up \in AnswersTo(Dispatch(req, Unreachable, clock,
                                      LOCAL_TIMEZONE, OPENWEATHER_API_KEY)) :
            Respond(req, clock, up,
                    Dispatch(req, up, clock, LOCAL_TIMEZONE, OPENWEATHER_API_KEY))

\* POST /tools/execute
ExecuteTool == \E req \in ToolRequests : Serve(req)

\* POST /webhook-test/weather-chat, served by the handler that takes a dict
WebhookDict == \E req \in WebhookDicts : Serve(req)

\* POST /webhook-test/weather-chat, served by the handler that takes a WebhookRequest
WebhookModel == \E req \in WebhookRequests : Serve(req)

\* GET /debug, GET /health and GET /tools
Get ==
    /\ proc = "serving"
    /\ request = NoRequest
    /\ \E route \in GetRoutes, clock \in Clocks :
         Respond([route |-> route], clock, NoUpstream,
                 GetDispatch(route, clock, LOCAL_TIMEZONE, OPENWEATHER_API_KEY, environ))

\* the response has gone out and the process waits for the next request
AwaitRequest ==
    /\ proc = "serving"
    /\ request # NoRequest
    /\ request' = NoRequest
    /\ now' = 0
    /\ upstream' = NoUpstream
    /\ calls' = <<>>
    /\ response' = NoResponse
    /\ UNCHANGED <<environ, boot_environ, entry, proc, LOCAL_TIMEZONE, OPENWEATHER_API_KEY>>

Next ==
    \/ ServerMainNoKey
    \/ ServerMainStart
    \/ HttpMain
    \/ ExecuteTool
    \/ WebhookDict
    \/ WebhookModel
    \/ Get
    \/ AwaitRequest

Spec == Init /\ [][Next]_vars

(***************************************************************************)
(* The bucketizer on every forecast list of up to MaxSamples distinct       *)
(* slots, in any order: a process serving in one of the zones, and the     *)
(* provider about to answer a get_forecast request with the list.          *)
(***************************************************************************)

ForecastRequest ==
    [route      |-> "/tools/execute",
     tool_name  |-> "get_forecast",
     parameters |-> [has_city |-> TRUE, city |-> city_Paris, days |-> 0]]

InitBucket ==
    /\ environ \in [TIMEZONE : {Str(tz_Kolkata), Str(tz_NewYork), Str(tz_UTC)},
                    OPENWEATHER_API_KEY : {Str(key_Real)}]
    /\ boot_environ = environ
    /\ entry = "server.py"
    /\ proc = "serving"
    /\ LOCAL_TIMEZONE = start_server(environ).module.LOCAL_TIMEZONE
    /\ OPENWEATHER_API_KEY = start_server(environ).module.OPENWEATHER_API_KEY
    /\ request = NoRequest
    /\ now = 0
    /\ upstream \in {Ok(d) : d \in ForecastData(DistinctSeq({Sample(t) : t \in SampleTimes},
                                                            MaxSamples))}
    /\ calls = <<>>
    /\ response = NoResponse

\* the get_forecast request, answered from the list the provider holds
ForecastOfList ==
    /\ proc = "serving"
    /\ request = NoRequest
    /\ \E clock \in {UtcEpoch(2024, 11, 1, 20, 0)} :
         Respond(ForecastRequest, clock, upstream,
                 Dispatch(ForecastRequest, upstream, clock,
                          LOCAL_TIMEZONE, OPENWEATHER_API_KEY))

NextBucket == ForecastOfList

SpecBucket == InitBucket /\ [][NextBucket]_vars

(***************************************************************************)
(* The time normalizer of get_current_weather on instants around the two   *)
(* changes of offset of America/New_York in 2024: a process serving in one *)
(* of the zones, and the provider about to answer a get_weather request    *)
(* with an observation made at the instant.                                *)
(***************************************************************************)

\* how many instants are taken on either side of a change of offset
MaxInstants == 8

\* 2024-07-04 12:00:00Z, and instants 1 h 30 min 31 s apart around the changes
Instants ==
    {UtcEpoch(2024, 7, 4, 12, 0)} \cup
    {change + k * 5431 : change \in {NewYorkDstStart, NewYorkDstEnd},
                         k \in (0 - MaxInstants)..MaxInstants}

WeatherRequest ==
    [route      |-> "/tools/execute",
     tool_name  |-> "get_weather",
     parameters |-> [has_city |-> TRUE, city |-> city_Paris, days |-> 0]]

InitInstant ==
    /\ environ \in [TIMEZONE : {Str(tz_Kolkata), Str(tz_NewYork), Str(tz_UTC)},
                    OPENWEATHER_API_KEY : {Str(key_Real)}]
    /\ boot_environ = environ
    /\ entry = "server.py"
    /\ proc = "serving"
    /\ LOCAL_TIMEZONE = start_server(environ).module.LOCAL_TIMEZONE
    /\ OPENWEATHER_API_KEY = start_server(environ).module.OPENWEATHER_API_KEY
    /\ request = NoRequest
    /\ now = 0
    /\ upstream \in {Ok([dt |-> t, name |-> "Paris", temp |-> 21]) : t \in Instants}
    /\ calls = <<>>
    /\ response = NoResponse

\* the get_weather request, answered from the observation the provider holds
CurrentOfInstant ==
    /\ proc = "serving"
    /\ request = NoRequest
    /\ Respond(WeatherRequest, upstream.data.dt, upstream,
               Dispatch(WeatherRequest, upstream, upstream.data.dt,
                        LOCAL_TIMEZONE, OPENWEATHER_API_KEY))

SpecInstant == InitInstant /\ [][CurrentOfInstant]_vars

(***************************************************************************)
(* extract_city_from_message on its own, on messages as they are typed     *)
(* (upper-case letters kept): each message is an opening, a city and an    *)
(* ending put together, or one of the chat messages.                       *)
(***************************************************************************)

\* the pieces the messages are composed of
pieces ==
    [openings |->
        {\* ""
         <<>>,
         \* "weather in "
         <<"w", "e", "a", "t", "h", "e", "r", " ", "i", "n", " ">>,
         \* "what's the weather like in "
         <<"w", "h", "a", "t", "'", "s", " ", "t", "h", "e", " ", "w", "e", "a", "t", "h",
           "e", "r", " ", "l", "i", "k", "e", " ", "i", "n", " ">>,
         \* "is it raining in "
         <<"i", "s", " ", "i", "t", " ", "r", "a", "i", "n", "i", "n", "g", " ", "i", "n",
           " ">>,
         \* "tell me about "
         <<"t", "e", "l", "l", " ", "m", "e", " ", "a", "b", "o", "u", "t", " ">>,
         \* "in "
         <<"i", "n", " ">>},
     cities |->
        {\* ""
         <<>>,
         \* "Paris"
         <<"P", "a", "r", "i", "s">>,
         \* "paris"
         <<"p", "a", "r", "i", "s">>,
         \* "new york"
         <<"n", "e", "w", " ", "y", "o", "r", "k">>,
         \* "Berlin"
         <<"B", "e", "r", "l", "i", "n">>,
         \* "  "
         <<" ", " ">>},
     endings |->
        {\* ""
         <<>>,
         \* "?"
         <<"?">>,
         \* " forecast"
         <<" ", "f", "o", "r", "e", "c", "a", "s", "t">>,
         \* " weather."
         <<" ", "w", "e", "a", "t", "h", "e", "r", ".">>,
         \* " today"
         <<" ", "t", "o", "d", "a", "y">>}]

RawMessages ==
    {o \o c \o e : o \in pieces.openings, c \in pieces.cities, e \in pieces.endings}
    \cup Messages

InitExtract ==
    /\ environ \in [TIMEZONE : {Str(tz_UTC)}, OPENWEATHER_API_KEY : {Str(key_Real)}]
    /\ boot_environ = environ
    /\ entry = "server.py"
    /\ proc = "serving"
    /\ LOCAL_TIMEZONE = start_server(environ).module.LOCAL_TIMEZONE
    /\ OPENWEATHER_API_KEY = start_server(environ).module.OPENWEATHER_API_KEY
    /\ request \in {[route |-> "extract_city_from_message", message |-> m] : m \in RawMessages}
    /\ now = 0
    /\ upstream = NoUpstream
    /\ calls = <<>>
    /\ response = NoResponse

\* the call extract_city_from_message(message) returns
ExtractCity ==
    /\ request.route = "extract_city_from_message"
    /\ response = NoResponse
    /\ response' = [status |-> 0, city |-> extract_city_from_message(request.message)]
    /\ UNCHANGED <<environ, boot_environ, entry, proc, LOCAL_TIMEZONE, OPENWEATHER_API_KEY,
                   request, now, upstream, calls>>

SpecExtract == InitExtract /\ [][ExtractCity]_vars

(***************************************************************************)
(* Properties.                                                             *)
(***************************************************************************)

\* a request has been handled and its response is in `response`
Handled == request # NoRequest

\* the handled request was a forecast that succeeded
ForecastSucceeded ==
    /\ Handled
    /\ request.route = "/tools/execute"
    /\ response.status = 200
    /\ response.body.type = "dict"
    /\ response.body.value.success
    /\ response.body.value.formatted_response.text = "5-Day Weather Forecast for"

\* local calendar date of an instant in the bound zone
LocalDate(t) == astimezone(t, LOCAL_TIMEZONE).date

\* the positions of a forecast list whose sample is the first of its local date
FirstOfDate(list) ==
    LET dates == [i \in 1..Len(list) |-> LocalDate(list[i].dt)]
    IN  {i \in 1..Len(list) : \A j \in 1..(i - 1) : dates[j] # dates[i]}

\* of those, the first ForecastDays
FirstDays(list) ==
    LET firsts == FirstOfDate(list)
    IN  {i \in firsts : Cardinality({j \in firsts : j < i}) < ForecastDays}

\* C1: a forecast holds at most ForecastDays (5) buckets, in data.forecasts and in the
\* text, and no two of them have the same local calendar date in the bound zone.
C1_AtMostFiveDistinctDates ==
    ForecastSucceeded =>
        LET fs   == response.body.value.data.forecasts
            days == response.body.value.formatted_response.days
        IN  /\ Len(fs) <= ForecastDays
            /\ Len(days) <= ForecastDays
            /\ \A i, j \in 1..Len(fs) :
                 i # j => /\ LocalDate(fs[i].timestamp_utc) # LocalDate(fs[j].timestamp_utc)
                          /\ fs[i].date # fs[j].date
            /\ \A i, j \in 1..Len(days) : i # j => days[i].date_str # days[j].date_str

\* C1 witness: the list held more than five local dates and five buckets came back
C1_Witness ==
    /\ ForecastSucceeded
    /\ Cardinality(FirstOfDate(upstream.data.list)) > ForecastDays
    /\ Len(response.body.value.data.forecasts) = ForecastDays

C3_TomorrowOnlySkipsToday ==
    (/\ ForecastSucceeded
     /\ request.route = "/tools/execute"
     /\ request.parameters.days = 1)
    => LET fs == response.body.value.data.forecasts
       IN  \A i \in 1..Len(fs) : fs[i].date # LocalDate(now)

\* C4: the buckets are in strictly ascending order of local date, in data.forecasts
\* and in the text, whatever the order of the input.
C4_AscendingDates ==
    ForecastSucceeded =>
        LET fs   == response.body.value.data.forecasts
            days == response.body.value.formatted_response.days
        IN  /\ \A i \in 1..(Len(fs) - 1) :
                 /\ DateLess(fs[i].date, fs[i + 1].date)
                 /\ DateLess(LocalDate(fs[i].timestamp_utc), LocalDate(fs[i + 1].timestamp_utc))
            /\ \A i \in 1..(Len(days) - 1) : DateLess(days[i].date_str, days[i + 1].date_str)

\* C4 witness: the input held a later date before an earlier one, and both are buckets
C4_Witness ==
    /\ ForecastSucceeded
    /\ LET list == upstream.data.list
       IN  \E i, j \in FirstDays(list) :
              i < j /\ DateLess(LocalDate(list[j].dt), LocalDate(list[i].dt))

\* the provider could not be reached, or answered with an error status
UpstreamFailed == Handled /\ Failed(upstream)

\* the value both tools return for a failed call: success = false, an error text and
\* a readable formatted_response
IsFailureValue(v) ==
    /\ v.type = "dict"
    /\ v.value.success = FALSE
    /\ v.value.error.text \in {"Failed to fetch weather data: ", "Failed to fetch forecast data: "}
    /\ v.value.formatted_response.text \in
         {"Sorry, I couldn't get weather data for {city}. Please check the city name and try again.",
          "Sorry, I couldn't get forecast data for {city}."}

IsSorryText(v) ==
    /\ v.type = "str"
    /\ v.value.text \in
         {"Sorry, I couldn't get weather data for {city}. Please check the city name and try again.",
          "Sorry, I couldn't get forecast data for {city}."}

\* C5: when the provider is unreachable or answers a non-2xx status, /tools/execute
\* answers 200 with the failure value, and the webhook answers 200 with its
\* formatted_response; no error status is sent.
C5_UpstreamFailureIsData ==
    UpstreamFailed =>
        /\ response.status = 200
        /\ request.route = "/tools/execute" => IsFailureValue(response.body)
        /\ request.route = "/webhook-test/weather-chat" => IsSorryText(response.body)

\* C5 witness: a tool call that the provider answered with an error status
C5_Witness ==
    /\ UpstreamFailed
    /\ request.route = "/tools/execute"
    /\ upstream.kind = "status"
    /\ response.status = 200

\* C6: on /tools/execute an unknown tool name or a missing city is answered with 400,
\* and 500 only with other exceptions.
C6_BadRequestIs400 ==
    (Handled /\ request.route = "/tools/execute") =>
        LET bad == \/ request.tool_name \notin {"get_weather", "get_forecast"}
                   \/ ~request.parameters.has_city
        IN  /\ bad => response.status = 400
            /\ response.status = 500 => ~bad

\* whether the webhook request names a city its handler finds
CityFound(req) ==
    IF req.handler = "model" THEN Truthy(extract_city_from_message(lower(req.message.s)))
    ELSE /\ req.message.type # "int"
         /\ Truthy(first_possible_city(lower(req.message.s)))

\* C7: a webhook message from which no city is extracted is answered with the
\* "please specify a city" text and without an outbound call; every webhook request,
\* whatever the provider does, is answered 200 with a string.
C7_NoCityNoCall ==
    (Handled /\ request.route = "/webhook-test/weather-chat") =>
        /\ response.status = 200
        /\ response.body.type = "str"
        /\ (request.message.type # "int" /\ ~CityFound(request)) =>
              (response.body = SpecifyCity /\ calls = <<>>)

\* C7 witness: the second handler, a pattern matches and captures blanks only
C7_Witness ==
    /\ Handled
    /\ request.route = "/webhook-test/weather-chat"
    /\ request.handler = "model"
    /\ request.message.s = msgs.blank_city
    /\ response.body = SpecifyCity

\* the zone a TIMEZONE setting stands for: its own when pytz knows it, else UTC
ConfiguredZone(setting) ==
    IF setting.isNone \/ setting.s = <<>> \/ setting.s \notin {tz_Kolkata, tz_NewYork, tz_UTC}
    THEN "UTC"
    ELSE pytz_timezone(setting.s).zone

\* C8: started through start_server, the process serves, and with the zone of the
\* TIMEZONE setting it was started with when that is a valid identifier, UTC otherwise;
\* the zone bound is always one a timestamp can be converted in.
C8_ZoneValidOrUtc ==
    (/\ entry = "server.py"
     /\ proc # "starting"
     /\ Truthy(getenv(boot_environ, "OPENWEATHER_API_KEY")))
    => /\ proc = "serving"
       /\ LOCAL_TIMEZONE \in ValidZones
       /\ LOCAL_TIMEZONE = ConfiguredZone(getenv(boot_environ, "TIMEZONE"))

\* C8 witness: started with an unknown identifier, serving in UTC
C8_Witness ==
    /\ entry = "server.py"
    /\ getenv(boot_environ, "TIMEZONE") = Str(tz_Unknown)
    /\ proc = "serving"
    /\ LOCAL_TIMEZONE = "UTC"

\* C9: a process started without OPENWEATHER_API_KEY never serves and never calls the
\* provider.
C9_MissingKeyIsFatal ==
    getenv(boot_environ, "OPENWEATHER_API_KEY").isNone => (proc # "serving" /\ calls = <<>>)

\* C10: a request makes at most one outbound call; when that call fails the failure
\* goes back to the caller with no second call.
C10_NoRetry ==
    /\ Len(calls) <= 1
    /\ UpstreamFailed =>
          /\ Len(calls) = 1
          /\ IsFailureValue(response.body) \/ IsSorryText(response.body)

\* C10 witness: the one call of a webhook request failed
C10_Witness ==
    /\ UpstreamFailed
    /\ request.route = "/webhook-test/weather-chat"
    /\ Len(calls) = 1

\* the handled request was a current-weather call that succeeded
CurrentSucceeded ==
    /\ Handled
    /\ request.route = "/tools/execute"
    /\ response.status = 200
    /\ response.body.value.success
    /\ response.body.value.formatted_response.text = "Current Weather for"

\* seconds east of UTC that a reported "+HH:MM" or "-HH:MM" stands for
OffsetSeconds(offset) ==
    (IF offset[1] = "-" THEN -1 ELSE 1) * (offset[2] * 3600 + offset[4] * 60)

\* a reported '%Y-%m-%d %H:%M:%S' read as if it were UTC, in epoch seconds
CivilSeconds(f) == DaysFromCivil(f[1], f[2], f[3]) * 86400 + f[4] * 3600 + f[5] * 60 + f[6]

\* C11: the local date and time that get_current_weather reports, minus the offset it
\* reports, is the UTC instant of the observation, in every bound zone; America/New_York
\* at 2024-07-04 12:00:00Z is reported as 2024-07-04 08:00:00 with offset -04:00.
C11_RoundTrip ==
    CurrentSucceeded =>
        LET d == response.body.value.data
        IN  /\ CivilSeconds(d.formatted_time) - OffsetSeconds(d.timezone_offset)
                  = upstream.data.dt
            /\ (LOCAL_TIMEZONE = "America/New_York"
                  /\ upstream.data.dt = UtcEpoch(2024, 7, 4, 12, 0))
               => /\ d.formatted_time = <<2024, 7, 4, 8, 0, 0>>
                  /\ d.timezone_offset = <<"-", 4, ":", 0>>

\* C11 witness: an observation made in New York one step after the clocks went back,
\* reported with the offset -05:00
C11_Witness ==
    /\ CurrentSucceeded
    /\ LOCAL_TIMEZONE = "America/New_York"
    /\ upstream.data.dt = NewYorkDstEnd + 5431
    /\ response.body.value.data.timezone_offset = <<"-", 5, ":", 0>>

\* C12: a list with fewer than ForecastDays (5) distinct local dates, the empty list
\* included, gives a successful forecast with exactly one bucket for each distinct
\* local date present, in data.forecasts and in the text.
C12_FewerDatesFewerBuckets ==
    (Handled /\ Cardinality(FirstOfDate(upstream.data.list)) < ForecastDays) =>
        /\ ForecastSucceeded
        /\ LET fs   == response.body.value.data.forecasts
               days == response.body.value.formatted_response.days
               list == upstream.data.list
           IN  /\ Len(fs) = Cardinality(FirstOfDate(list))
               /\ Len(days) = Cardinality(FirstOfDate(list))
               /\ {fs[i].date : i \in 1..Len(fs)}
                    = {LocalDate(list[i].dt) : i \in 1..Len(list)}
               /\ {days[i].date_str : i \in 1..Len(days)}
                    = {LocalDate(list[i].dt) : i \in 1..Len(list)}

\* C12 witness: the provider's list was empty and the forecast succeeded with no bucket
C12_Witness ==
    /\ ForecastSucceeded
    /\ upstream.data.list = <<>>
    /\ response.body.value.data.forecasts = <<>>
    /\ response.body.value.formatted_response.days = <<>>

\* the samples a forecast returned, in the order of its buckets
ReturnedSamples(fs) ==
    [i \in 1..Len(fs) |-> [dt |-> fs[i].timestamp_utc, temp |-> fs[i].temperature]]

\* C13: the forecast of the samples a forecast returned is the same forecast: the same
\* buckets in the same order, in data.forecasts and in the text.
C13_Idempotent ==
    ForecastSucceeded =>
        LET fs    == response.body.value.data.forecasts
            again == get_weather_forecast(city_Paris,
                                          Ok([list |-> ReturnedSamples(fs), name |-> "Paris"]),
                                          now, LOCAL_TIMEZONE, OPENWEATHER_API_KEY)
        IN  /\ ~again.raised
            /\ again.value = response.body

\* C13 witness: the forecast dropped or reordered samples of the input, so the second
\* run is on another list than the first
C13_Witness ==
    /\ ForecastSucceeded
    /\ Len(response.body.value.data.forecasts) >= 2
    /\ ReturnedSamples(response.body.value.data.forecasts) # upstream.data.list

\* extract_city_from_message has returned for the message of the request
Extracted == request.route = "extract_city_from_message" /\ response # NoResponse

\* the patterns that match a message somewhere
MatchingPatterns(m) == {i \in 1..Len(patterns) : re_search(patterns[i], m).ok}

\* the tokens of a message that start with a capital or are an allow-listed city
CityTokens(m) ==
    {i \in 1..Len(split(m)) :
        IsUpper(split(m)[i][1]) \/ InList(split(m)[i], known_city_words)}

\* C14: the city extracted is the trimmed first group of the first pattern, in the
\* listed order, that matches; with no pattern matching it is the first token that is
\* capitalized or an allow-listed city; with neither it is None ("not found").
\* "what's the weather like in Paris?" gives "Paris" and "weather" gives None.
C14_PatternsInOrder ==
    Extracted =>
        LET m    == request.message
            hits == MatchingPatterns(m)
            toks == CityTokens(m)
            p    == CHOOSE i \in hits : \A j \in hits : i <= j
            t    == CHOOSE i \in toks : \A j \in toks : i <= j
        IN  /\ hits # {} => response.city = Str(strip(re_search(patterns[p], m).group1))
            /\ (hits = {} /\ toks # {}) =>
                  /\ ~response.city.isNone
                  /\ lower(response.city.s) = lower(split(m)[t])
            /\ (hits = {} /\ toks = {}) => response.city = None
            /\ m = <<"w", "h", "a", "t", "'", "s", " ", "t", "h", "e", " ", "w", "e", "a",
                  "t", "h", "e", "r", " ", "l", "i", "k", "e", " ", "i", "n", " ", "P",
                  "a", "r", "i", "s", "?">>
               => response.city = Str(<<"P", "a", "r", "i", "s">>)
            /\ m = msgs.weather => response.city = None

\* C14 witness: "weather in Paris forecast", which the first, the second and the last
\* pattern match with different groups, gives the first pattern's "Paris forecast"
C14_Witness ==
    /\ Extracted
    /\ request.message = <<"w", "e", "a", "t", "h", "e", "r", " ", "i", "n", " ", "P", "a",
                        "r", "i", "s", " ", "f", "o", "r", "e", "c", "a", "s", "t">>
    /\ Cardinality(MatchingPatterns(request.message)) >= 3
    /\ response.city = Str(<<"P", "a", "r", "i", "s", " ", "f", "o", "r", "e", "c", "a", "s",
                          "t">>)

\* how the handler of the handled request ends when it is run on the two globals as
\* the module body bound them at startup
OutOnStartupSettings ==
    LET mod == ImportServerModule(environ)
    IN  IF request.route \in GetRoutes
        THEN GetDispatch(request.route, now, mod.LOCAL_TIMEZONE, mod.OPENWEATHER_API_KEY,
                         environ)
        ELSE Dispatch(request, upstream, now, mod.LOCAL_TIMEZONE, mod.OPENWEATHER_API_KEY)

\* C15: no step of a serving process (a request of any route handled, or the wait for
\* the next one) changes LOCAL_TIMEZONE, OPENWEATHER_API_KEY or the environment, and
\* every response is what the handler gives on the startup settings for this request,
\* this clock and this provider answer, whatever was served before.
C15_SettingsReadOnly ==
    /\ [](Handled => response = HttpResponse(OutOnStartupSettings))
    /\ [][proc = "serving" =>
            /\ LOCAL_TIMEZONE' = LOCAL_TIMEZONE
            /\ OPENWEATHER_API_KEY' = OPENWEATHER_API_KEY
            /\ environ' = environ]_vars

\* C15 witness: a handler has sent the fallback key to the provider and the global
\* still holds the empty credential of startup
C15_Witness ==
    /\ Handled
    /\ calls # <<>>
    /\ calls[1].appid = key_Hardcoded
    /\ OPENWEATHER_API_KEY = Str(<<>>)
    /\ response = HttpResponse(OutOnStartupSettings)

\* the handled request is a webhook request with a str message in which its handler
\* finds a city
WebhookWithCity ==
    /\ Handled
    /\ request.route = "/webhook-test/weather-chat"
    /\ request.message.type = "str"
    /\ CityFound(request)

\* the handler made one call to the provider, for the current weather
CalledCurrentWeather ==
    /\ Len(calls) = 1
    /\ calls[1].url = "http://api.openweathermap.org/data/2.5/weather"

\* C16: a webhook request with preferCurrentWeather = false whose message names a city
\* and has no forecast term is answered from the current weather, not the forecast.
C16_DefaultIsCurrentWeather ==
    (/\ WebhookWithCity
     /\ ~request.preferCurrentWeather
     /\ ~AnyTermIn(forecast_terms, lower(request.message.s)))
    => CalledCurrentWeather

\* C17: a webhook request with preferCurrentWeather = true and a city found makes its
\* one call to the current-weather endpoint and none to the forecast endpoint, whatever
\* terms the message has and whichever of the two handlers serves it.
C17_PreferCurrentWins ==
    (WebhookWithCity /\ request.preferCurrentWeather) => CalledCurrentWeather

\* C17 witness: "london forecast" with preferCurrentWeather = true, served by the
\* handler that takes a dict, went to the current-weather endpoint
C17_Witness ==
    /\ WebhookWithCity
    /\ request.handler = "dict"
    /\ request.preferCurrentWeather
    /\ request.message.s = msgs.london_forecast
    /\ AnyTermIn(forecast_terms, lower(request.message.s))
    /\ CalledCurrentWeather

\* C18: in a successful forecast the one offset reported, in data.timezone_offset and in
\* the footer of the text, is the zone's offset at every returned bucket: the bucket's
\* reported local date and time minus that offset is its timestamp_utc.
C18_OneOffsetFitsEveryBucket ==
    ForecastSucceeded =>
        LET v  == response.body.value
            fs == v.data.forecasts
        IN  /\ v.formatted_response.offset = v.data.timezone_offset
            /\ \A i \in 1..Len(fs) :
                  CivilSeconds(fs[i].formatted_datetime) - OffsetSeconds(v.data.timezone_offset)
                      = fs[i].timestamp_utc

====
